---- MODULE Spec2Model ----
(***************************************************************************)
(* TimeTap: the metrics-recording core of src/src/timetap.                 *)
(*                                                                         *)
(* TimeTapHelperClass is a process-wide singleton holding a lock, the      *)
(* metrics tree, the global enable flag and two one-time-warning flags;    *)
(* every thread owns a private current_path (threading.local).             *)
(*                                                                         *)
(* Representation.                                                         *)
(*  - The metrics tree (nested dicts {"timings", "children"}) is a         *)
(*    sequence of nodes <<[path, timings]>> in creation order: the node of *)
(*    name n in the children dict reached by path q is the entry whose     *)
(*    path is q \o <<n>>, and the insertion order of a dict is the order   *)
(*    of its entries in the sequence.                                      *)
(*  - An elapsed time (float seconds) is a whole number of ticks of        *)
(*    1/TicksPerSecond s; a printed duration ("%.1f" milliseconds) is a    *)
(*    whole number of tenths of a millisecond.                             *)
(*  - A thread is either running caller code (pc = "run", which includes   *)
(*    the wrapped work of its open scopes) or inside one call of the       *)
(*    helper; frames[t] are its suspended log() generators.                *)
(***************************************************************************)
EXTENDS Integers, Sequences, FiniteSets, TLC

\* ---------------------------------------------------------------- bounds
\* Threads; names on one scope stack; samples in the store plus timed scopes
\* open; samples in the stores that RenderSpec renders.
NumThreads == 2
NumCallers == 3
MaxDepth == 2
MaxSamples == 3
RenderMaxSamples == 3

Threads == 1..NumThreads
Callers == 1..NumCallers
Names == {"A", "B"}
Durations == {1, 2}
ConcDurations == {1}
RenderDurations == {1, 2, 4, 6, 10}

\* Scope names for the layout of the table: one longer than the widest name
\* column (90 characters), one wider than the narrowest column (20), and one
\* that contains the separator of __flatten_dict (26).
LongName == "load-the-batch-then-decode-augment-and-normalise-every-image-before-it-is-sent-to-training"
MidName == "prepare-the-datasets"
SepHead == "load-and-decode"
SepTail == "augment"
SepName == "load-and-decode -> augment"
LayoutPaths ==
    {<<"A">>, <<"B">>, <<"A", "B">>, <<"A", "B", "A">>, <<"A", "B", "B">>,
     <<MidName, "A">>, <<LongName>>, <<"B", LongName>>, <<SepName>>}

\* One tick of the clock (time.perf_counter) is 5 ms; line 197 and the
\* lines after it multiply seconds by 1000.
TicksPerSecond == 200
MsPerSecond == 1000
min_width_func == 15
max_width_func == 80

NoMetrics == "No metrics to display."
\* self.max_depth = None
None == -1

VARIABLES
    metrics,                        \* self.metrics
    lock,                           \* self.lock: 0 free, else the holder
    enabled,                        \* self.enabled
    have_printed_enabled_warning,
    have_printed_gpu_warning,
    max_depth,                      \* self.max_depth (None or a width)
    torch,                          \* whether "import torch" succeeded
    current_path,                   \* thread_local.current_path, per thread
    frames,                         \* suspended log() generators, per thread
    pc,                             \* position of each thread
    loc,                            \* locals of the call each thread is in
    snap,                           \* str_metrics: the deep copy, per thread
    out,                            \* value returned by str_metrics
    warnings,                       \* warning() calls issued so far, by kind
    completed,                      \* history: timed scopes finished, per thread and path
    dirty,                          \* history: a record touched the store since the last reset
    everReset                       \* history: reset() has been called

vars == <<metrics, lock, enabled, have_printed_enabled_warning,
          have_printed_gpu_warning, max_depth, torch, current_path, frames,
          pc, loc, snap, out, warnings, completed, dirty, everReset>>

\* ------------------------------------------------------- the metrics tree
RECURSIVE PathsUpTo(_)
PathsUpTo(n) ==
    IF n = 0 THEN {<<>>}
    ELSE LET P == PathsUpTo(n - 1)
         IN  P \cup {Append(p, x) : p \in {q \in P : Len(q) = n - 1}, x \in Names}

AllPaths == PathsUpTo(MaxDepth) \ {<<>>}

Prefix(p, i) == SubSeq(p, 1, i)
IsPrefix(p, q) == Len(p) <= Len(q) /\ Prefix(q, Len(p)) = p
IsStrictPrefix(p, q) == Len(p) < Len(q) /\ Prefix(q, Len(p)) = p
Last(s) == s[Len(s)]
Front(s) == SubSeq(s, 1, Len(s) - 1)

\* `part in current`, where current is the dict reached by Front(p) and
\* part is Last(p).
HasNode(m, p) == \E k \in 1..Len(m) : m[k].path = p
IndexOf(m, p) == CHOOSE k \in 1..Len(m) : m[k].path = p
Timings(m, p) == IF HasNode(m, p) THEN m[IndexOf(m, p)].timings ELSE <<>>

\* The keys of the dict reached by path q, in insertion order.
Children(m, q) ==
    SelectSeq(m, LAMBDA n : Len(n.path) = Len(q) + 1 /\ IsPrefix(q, n.path))

RECURSIVE SeqSum(_)
SeqSum(s) == IF s = <<>> THEN 0 ELSE s[1] + SeqSum(Tail(s))

TotalSamples(m) == SeqSum([k \in 1..Len(m) |-> Len(m[k].timings)])

\* current[part] = {"timings": [], "children": defaultdict(dict)}:
\* a dict assignment; an existing key keeps its position and loses its old
\* value (its timings and its whole subtree).
NewNode(m, p) ==
    IF HasNode(m, p)
    THEN LET kept == SelectSeq(m, LAMBDA n : ~IsStrictPrefix(p, n.path))
         IN  [k \in 1..Len(kept) |->
                 IF kept[k].path = p THEN [path |-> p, timings |-> <<>>]
                 ELSE kept[k]]
    ELSE Append(m, [path |-> p, timings |-> <<>>])

\* A faulty append: the sample goes to every node on the path.
AppendTiming_AllOnPath(m, p, elapsed) ==
    [k \in 1..Len(m) |->
        IF IsPrefix(m[k].path, p)
        THEN [m[k] EXCEPT !.timings = Append(@, elapsed)] ELSE m[k]]

\* current[part]["timings"].append(elapsed)
AppendTiming(m, p, elapsed) ==
    [k \in 1..Len(m) |->
        IF m[k].path = p THEN [m[k] EXCEPT !.timings = Append(@, elapsed)] ELSE m[k]]

\* A faulty iteration: the node is assigned anew whether or not it exists.
UpdateIteration_AlwaysNew(m, path, i, missing, elapsed) ==
    LET p  == Prefix(path, i)
        m1 == NewNode(m, p)
    IN  IF i = Len(path) THEN AppendTiming(m1, p, elapsed) ELSE m1

\* One iteration of the loop of __update_metrics, for i (1-based) and the
\* outcome `missing` of its membership test.
UpdateIteration(m, path, i, missing, elapsed) ==
    LET p  == Prefix(path, i)
        m1 == IF missing THEN NewNode(m, p) ELSE m
    IN  IF i = Len(path) THEN AppendTiming(m1, p, elapsed) ELSE m1

\* The whole critical section of __update_metrics.
RECURSIVE UpdateFrom(_, _, _, _)
UpdateFrom(m, path, i, elapsed) ==
    IF i > Len(path) THEN m
    ELSE UpdateFrom(UpdateIteration(m, path, i, ~HasNode(m, Prefix(path, i)), elapsed),
                    path, i + 1, elapsed)

UpdateMetrics(m, path, elapsed) == UpdateFrom(m, path, 1, elapsed)

\* A faulty reset: the timings are emptied and the nodes stay.
Clear_KeepNodes(m) == [k \in 1..Len(m) |-> [m[k] EXCEPT !.timings = <<>>]]

\* self.metrics.clear()
Clear(m) == <<>>

\* A lock that does not exclude.
CanAcquire_NoLock == TRUE

\* threading.Lock: `with self.lock` enters only when the lock is free.
CanAcquire == lock = 0

\* A faulty with block: the return of line 163 leaves the lock held.
LockAfterWith_HeldOnReturn(t, returns) == IF returns THEN t ELSE 0

\* The lock after thread t leaves the `with self.lock` block of lines
\* 161-164, by the return of line 163 or at its end: released.
LockAfterWith(t, returns) == 0

\* ----------------------------------------------------------------- log()
\* Faulty conditions: the global flag, or the argument, is not looked at.
Timed_IgnoresFlag(enable, flag) == enable

Timed_IgnoresEnable(enable, flag) == flag

\* The branch taken at line 106: the else branch times the scope.
Timed(enable, flag) == ~(~enable \/ ~flag)

\* A faulty __sync_cuda: the warning is printed at every NameError.
SyncWarns_Always(gpu) == gpu /\ ~torch

\* __sync_cuda(gpu): torch.cuda.synchronize() raises NameError when torch was
\* not imported; the warning is printed unless it was printed before.
SyncWarns(gpu) == gpu /\ ~torch /\ ~have_printed_gpu_warning
SyncSets(gpu) == gpu /\ ~torch

FrameNames(fs) == [k \in 1..Len(fs) |-> fs[k].name]
OpenTimed == SeqSum([t \in Threads |-> Len(SelectSeq(frames[t], LAMBDA f : f.timed))])

\* ----------------------------------------------------------- str_metrics
Max(a, b) == IF a >= b THEN a ELSE b
Min(a, b) == IF a <= b THEN a ELSE b

RECURSIVE SeqMax(_)
SeqMax(s) == IF Len(s) = 1 THEN s[1] ELSE Max(s[1], SeqMax(Tail(s)))
RECURSIVE SeqMin(_)
SeqMin(s) == IF Len(s) = 1 THEN s[1] ELSE Min(s[1], SeqMin(Tail(s)))

\* sorted(data): ascending insertion of each element.
RECURSIVE SortAsc(_)
SortAsc(s) ==
    IF s = <<>> THEN <<>>
    ELSE LET r == SortAsc(Front(s))
             x == Last(s)
             j == Cardinality({k \in 1..Len(r) : r[k] <= x})
         IN  SubSeq(r, 1, j) \o <<x>> \o SubSeq(r, j + 1, Len(r))

\* A faulty median: the lower middle value of an even count.
Median2_LowerMiddle(ts) ==
    LET d == SortAsc(ts)
        n == Len(ts)
    IN  IF n % 2 = 1 THEN 2 * d[(n \div 2) + 1] ELSE 2 * d[n \div 2]

\* statistics.median(ts), doubled so that the mean of the two middle values
\* of an even count stays a whole number of ticks.
Median2(ts) ==
    LET d == SortAsc(ts)
        n == Len(ts)
    IN  IF n % 2 = 1 THEN 2 * d[(n \div 2) + 1]
        ELSE d[n \div 2] + d[(n \div 2) + 1]

\* The sort key of lines 185-187, doubled.
SortKey2(node) == IF node.timings # <<>> THEN Median2(node.timings) ELSE 0

\* A faulty sort: reverse=True left out.
RECURSIVE SortedItems_NoReverse(_)
SortedItems_NoReverse(items) ==
    IF items = <<>> THEN <<>>
    ELSE LET r == SortedItems_NoReverse(Front(items))
             x == Last(items)
             j == Cardinality({k \in 1..Len(r) : SortKey2(r[k]) <= SortKey2(x)})
         IN  SubSeq(r, 1, j) \o <<x>> \o SubSeq(r, j + 1, Len(r))

\* sorted(node.items(), key=..., reverse=True): a stable sort, descending;
\* each item is inserted behind the items whose key is not smaller.
RECURSIVE SortedItems(_)
SortedItems(items) ==
    IF items = <<>> THEN <<>>
    ELSE LET r == SortedItems(Front(items))
             x == Last(items)
             j == Cardinality({k \in 1..Len(r) : SortKey2(r[k]) >= SortKey2(x)})
         IN  SubSeq(r, 1, j) \o <<x>> \o SubSeq(r, j + 1, Len(r))

\* f"{v:.1f}" of the duration num/den milliseconds, in tenths of a
\* millisecond: the nearest tenth, a tie going to the even one.
Fmt1(num, den) ==
    LET q == (10 * num) \div den
        r == (10 * num) % den
    IN  IF 2 * r > den \/ (2 * r = den /\ q % 2 = 1) THEN q + 1 ELSE q

\* Lines 194-201 as printed by line 216: the timings are seconds
\* (ticks / TicksPerSecond) and every statistic is multiplied by 1000.
Stats(ts) ==
    [count   |-> Len(ts),
     total   |-> Fmt1(SeqSum(ts) * MsPerSecond, TicksPerSecond),
     average |-> Fmt1(SeqSum(ts) * MsPerSecond, TicksPerSecond * Len(ts)),
     median  |-> Fmt1(Median2(ts) * MsPerSecond, 2 * TicksPerSecond),
     min     |-> Fmt1(SeqMin(ts) * MsPerSecond, TicksPerSecond),
     max     |-> Fmt1(SeqMax(ts) * MsPerSecond, TicksPerSecond)]

\* The length of s[:n] for a string s of length len, as Python slices: a
\* negative n counts from the end.
SliceLen(len, n) == IF n >= 0 THEN Min(len, n) ELSE Max(len + n, 0)

\* A faulty truncation: the room for the three dots is not taken off.
Truncated_NoRoom(full, width) == SliceLen(full, width) + 3

\* Line 214: the length of func_name[: self.max_depth - 3] + "...".
Truncated(full, width) == SliceLen(full, width - 3) + 3

\* A connector that marks the last sibling at every depth.
Marker_LastAtAnyDepth(depth, idx, siblings) ==
    IF depth > 0
    THEN (IF idx = siblings - 1 THEN "last" ELSE "middle")
    ELSE "none"

\* Lines 203-208: the connector in front of the name.
Marker(depth, idx, siblings) ==
    IF depth > 0
    THEN (IF idx = siblings - 1 /\ depth = 1 THEN "last" ELSE "middle")
    ELSE "none"

\* Lines 203-216: the name field of a row.  The indent is one marker of two
\* characters and depth - 1 fillers of two characters; `shown` is the length
\* of func_name after line 214 and `field` its length as line 216 pads it.
Row(path, depth, idx, siblings, width, ts) ==
    LET name   == Last(path)
        marker == Marker(depth, idx, siblings)
        ilen   == IF depth > 0 THEN 2 + 2 * (depth - 1) ELSE 0
        full   == ilen + Len(name)
        cut    == full > width
        shown  == IF cut THEN Truncated(full, width) ELSE full
    IN  [path |-> path, name |-> name, depth |-> depth, marker |-> marker,
         fillers |-> IF depth > 0 THEN depth - 1 ELSE 0, cut |-> cut,
         shown |-> shown, field |-> Max(shown, width), stats |-> Stats(ts)]

\* The loop of lines 182-221 over the dict reached by `path` in the copy m;
\* idx counts from 0 as enumerate does.
RECURSIVE StrRows(_, _, _, _)
RECURSIVE StrRowsFrom(_, _, _, _, _, _)
\* A faulty loop: the children are visited only under a node that has a
\* row of its own.
RECURSIVE StrRowsFrom_ChildrenUnderRow(_, _, _, _, _, _)
StrRowsFrom_ChildrenUnderRow(m, items, k, depth, path, width) ==
    IF k > Len(items) THEN <<>>
    ELSE LET data == items[k]
             row  == IF Len(data.timings) > 0
                     THEN <<Row(data.path, depth, k - 1, Len(items), width, data.timings)>>
                          \o (IF Children(m, data.path) # <<>>
                              THEN StrRows(m, depth + 1, data.path, width)
                              ELSE <<>>)
                     ELSE <<>>
         IN  row \o StrRowsFrom_ChildrenUnderRow(m, items, k + 1, depth, path, width)
StrRowsFrom(m, items, k, depth, path, width) ==
    IF k > Len(items) THEN <<>>
    ELSE LET data == items[k]
             row  == IF Len(data.timings) > 0
                     THEN <<Row(data.path, depth, k - 1, Len(items), width, data.timings)>>
                     ELSE <<>>
             sub  == IF Children(m, data.path) # <<>>
                     THEN StrRows(m, depth + 1, data.path, width)
                     ELSE <<>>
         IN  row \o sub \o StrRowsFrom(m, items, k + 1, depth, path, width)
StrRows(m, depth, path, width) ==
    StrRowsFrom(m, SortedItems(Children(m, path)), 1, depth, path, width)

\* __flatten_dict: the keys are the paths of the nodes without children, in
\* dict order.  A key is kept as the sequence of its names; line 170 joins
\* them with " -> " and splits the result again (SplitKey).
RECURSIVE FlattenKeys(_, _)
RECURSIVE FlattenFrom(_, _, _)
FlattenFrom(m, items, k) ==
    IF k > Len(items) THEN <<>>
    ELSE (IF Children(m, items[k].path) # <<>>
          THEN FlattenKeys(m, items[k].path)
          ELSE <<items[k].path>>) \o FlattenFrom(m, items, k + 1)
FlattenKeys(m, path) == FlattenFrom(m, Children(m, path), 1)

\* name.split(" -> ") for the names in use: SepName is the one name that
\* contains the separator.
Split(name) == IF name = SepName THEN <<SepHead, SepTail>> ELSE <<name>>

\* " -> ".join(key).split(" -> "): the segments of every name, in order.
RECURSIVE SplitKey(_)
SplitKey(key) == IF key = <<>> THEN <<>> ELSE Split(Head(key)) \o SplitKey(Tail(key))

\* A faulty width: only the last name of every key is measured.
KeyWidth_LeafOnly(key) == Len(Last(key)) + 2 * (Len(key) - 1)

\* Lines 166-175: the width of the name column.
KeyWidth(key) ==
    LET segs == SplitKey(key)
    IN  SeqMax([j \in 1..Len(segs) |-> Len(segs[j]) + 2 * (j - 1)])
ComputeWidth(m) ==
    LET keys == FlattenKeys(m, <<>>)
        raw  == IF keys = <<>> THEN 0
                ELSE Max(0, SeqMax([k \in 1..Len(keys) |-> KeyWidth(keys[k])]))
    IN  Min(Max(raw, min_width_func), max_width_func)

NoOut == [text |-> "", width |-> 0, rows |-> <<>>]

NoLoc == [i |-> 0, elapsed |-> 0, missing |-> FALSE, arg |-> FALSE, warn |-> FALSE,
          clean |-> FALSE, pre |-> <<>>]

Init ==
    /\ metrics = <<>>
    /\ lock = 0
    /\ enabled = TRUE
    /\ have_printed_enabled_warning = FALSE
    /\ have_printed_gpu_warning = FALSE
    /\ max_depth = None
    /\ torch = FALSE
    /\ current_path = [t \in Threads |-> <<>>]
    /\ frames = [t \in Threads |-> <<>>]
    /\ pc = [t \in Threads |-> "run"]
    /\ loc = [t \in Threads |-> NoLoc]
    /\ snap = [t \in Threads |-> <<>>]
    /\ out = [t \in Threads |-> NoOut]
    /\ warnings = [enabled |-> 0, gpu |-> 0]
    /\ completed = [t \in Threads |-> [p \in AllPaths |-> 0]]
    /\ dirty = FALSE
    /\ everReset = FALSE

\* __enter__ of timeTap_log(name, enable, gpu=gpu): lines 104-111, up to the
\* yield.
Enter(t, name, enable, gpu) ==
    LET timed == Timed(enable, enabled)
    IN  /\ pc[t] = "run"
        /\ Len(current_path[t]) < MaxDepth
        /\ timed => TotalSamples(metrics) + OpenTimed < MaxSamples
        /\ current_path' = [current_path EXCEPT ![t] = Append(@, name)]
        /\ frames' = [frames EXCEPT ![t] = Append(@,
                         [name |-> name, enable |-> enable, gpu |-> gpu,
                          timed |-> timed, flag |-> enabled,
                          base |-> current_path[t], added |-> 0])]
        /\ IF timed /\ SyncSets(gpu)
           THEN /\ have_printed_gpu_warning' = TRUE
                /\ warnings' = [warnings EXCEPT
                                  !.gpu = IF SyncWarns(gpu) THEN @ + 1 ELSE @]
           ELSE UNCHANGED <<have_printed_gpu_warning, warnings>>
        /\ UNCHANGED <<metrics, lock, enabled, have_printed_enabled_warning,
                       max_depth, torch, pc, loc, snap, out, completed, dirty,
                       everReset>>

\* History: thread t's innermost scope completes normally; it counts, at the
\* path it completes at, if it was entered with enable true and the flag
\* true, and until the first reset.
Finished(t) ==
    IF ~everReset /\ Last(frames[t]).enable /\ Last(frames[t]).flag
    THEN [completed EXCEPT ![t][current_path[t]] = @ + 1]
    ELSE completed

\* Normal __exit__ of a scope that took the `if` branch: lines 107, 121.
ExitSkipped(t) ==
    /\ pc[t] = "run"
    /\ frames[t] # <<>>
    /\ ~Last(frames[t]).timed
    /\ current_path' = [current_path EXCEPT ![t] = Front(@)]
    /\ frames' = [frames EXCEPT ![t] = Front(@)]
    /\ completed' = Finished(t)
    /\ UNCHANGED <<metrics, lock, enabled, have_printed_enabled_warning,
                   have_printed_gpu_warning, max_depth, torch, pc, loc, snap,
                   out, warnings, dirty, everReset>>

\* Normal __exit__ of a timed scope: lines 112-119 and 132-133; the elapsed
\* time d is whatever the clock measured.  `pre` keeps the store as it is
\* when the lock is taken.
ExitTimedAt(t, d, at) ==
    /\ pc[t] = at
    /\ frames[t] # <<>>
    /\ Last(frames[t]).timed
    /\ CanAcquire
    /\ lock' = t
    /\ loc' = [loc EXCEPT ![t] = [NoLoc EXCEPT !.i = 1, !.elapsed = d, !.pre = metrics]]
    /\ pc' = [pc EXCEPT ![t] = "um_test"]
    /\ IF SyncSets(Last(frames[t]).gpu)
       THEN /\ have_printed_gpu_warning' = TRUE
            /\ warnings' = [warnings EXCEPT
                              !.gpu = IF SyncWarns(Last(frames[t]).gpu) THEN @ + 1 ELSE @]
       ELSE UNCHANGED <<have_printed_gpu_warning, warnings>>
    /\ UNCHANGED <<metrics, enabled, have_printed_enabled_warning, max_depth,
                   torch, current_path, frames, snap, out, completed, dirty,
                   everReset>>

ExitTimed(t, d) == ExitTimedAt(t, d, "run")

\* Line 135: `if part not in current`.
UmTest(t) ==
    /\ pc[t] = "um_test"
    /\ loc' = [loc EXCEPT ![t].missing =
                  ~HasNode(metrics, Prefix(current_path[t], loc[t].i))]
    /\ pc' = [pc EXCEPT ![t] = "um_body"]
    /\ UNCHANGED <<metrics, lock, enabled, have_printed_enabled_warning,
                   have_printed_gpu_warning, max_depth, torch, current_path,
                   frames, snap, out, warnings, completed, dirty, everReset>>

\* Lines 136-141, and the loop's next element.
UmBody(t) ==
    LET path == current_path[t]
        i    == loc[t].i
    IN  /\ pc[t] = "um_body"
        /\ metrics' = UpdateIteration(metrics, path, i, loc[t].missing, loc[t].elapsed)
        /\ dirty' = TRUE
        /\ frames' = [frames EXCEPT ![t][Len(frames[t])].added =
                         IF i = Len(path) THEN @ + 1 ELSE @]
        /\ loc' = [loc EXCEPT ![t].i = i + 1]
        /\ pc' = [pc EXCEPT ![t] = IF i < Len(path) THEN "um_test" ELSE "um_exit"]
        /\ UNCHANGED <<lock, enabled, have_printed_enabled_warning,
                       have_printed_gpu_warning, max_depth, torch, current_path,
                       snap, out, warnings, completed, everReset>>

\* The end of `with self.lock` in __update_metrics, then line 121.
UmExit(t) ==
    /\ pc[t] = "um_exit"
    /\ lock' = 0
    /\ completed' = Finished(t)
    /\ current_path' = [current_path EXCEPT ![t] = Front(@)]
    /\ frames' = [frames EXCEPT ![t] = Front(@)]
    /\ loc' = [loc EXCEPT ![t] = NoLoc]
    /\ pc' = [pc EXCEPT ![t] = "run"]
    /\ UNCHANGED <<metrics, enabled, have_printed_enabled_warning,
                   have_printed_gpu_warning, max_depth, torch, snap, out,
                   warnings, dirty, everReset>>

\* A faulty generator: the measurement is submitted although the wrapped
\* work raised.
Raise_Submits(t) ==
    /\ pc[t] = "run"
    /\ frames[t] # <<>>
    /\ frames' = [frames EXCEPT ![t] = Front(@)]
    /\ metrics' = UpdateMetrics(metrics, current_path[t], 1)
    /\ dirty' = TRUE
    /\ UNCHANGED <<lock, enabled, have_printed_enabled_warning,
                   have_printed_gpu_warning, max_depth, torch, current_path, pc,
                   loc, snap, out, warnings, completed, everReset>>

\* The wrapped work raises: contextlib throws the exception into the
\* generator at its yield (line 107 or 111); log() has no try/finally, so
\* the generator ends there and line 121 is not executed.
Raise(t) ==
    /\ pc[t] = "run"
    /\ frames[t] # <<>>
    /\ frames' = [frames EXCEPT ![t] = Front(@)]
    /\ UNCHANGED <<metrics, lock, enabled, have_printed_enabled_warning,
                   have_printed_gpu_warning, max_depth, torch, current_path, pc,
                   loc, snap, out, warnings, completed, dirty, everReset>>

\* reset(): lines 68-69.
ResetAt(t, at) ==
    /\ pc[t] = at
    /\ CanAcquire
    /\ metrics' = Clear(metrics)
    /\ dirty' = FALSE
    /\ everReset' = TRUE
    /\ completed' = [u \in Threads |-> [p \in AllPaths |-> 0]]
    /\ pc' = [pc EXCEPT ![t] = "run"]
    /\ UNCHANGED <<lock, enabled, have_printed_enabled_warning,
                   have_printed_gpu_warning, max_depth, torch, current_path,
                   frames, loc, snap, out, warnings>>

Reset(t) == ResetAt(t, "run")

\* A faulty test: the flag of the one-time warning is not consulted.
WarnsOnDisable_Repeats(e) == enabled # e /\ e = FALSE

\* set_enabled: the condition of lines 261-263.
WarnsOnDisable(e) ==
    /\ enabled # e
    /\ e = FALSE
    /\ have_printed_enabled_warning = FALSE

\* set_enabled(e): the condition of lines 261-265.
SetEnabledTest(t, e) ==
    /\ pc[t] = "run"
    /\ loc' = [loc EXCEPT ![t] = [NoLoc EXCEPT !.arg = e, !.warn = WarnsOnDisable(e)]]
    /\ pc' = [pc EXCEPT ![t] = "se_assign"]
    /\ UNCHANGED <<metrics, lock, enabled, have_printed_enabled_warning,
                   have_printed_gpu_warning, max_depth, torch, current_path,
                   frames, snap, out, warnings, completed, dirty, everReset>>

\* set_enabled: lines 266-268.
SetEnabledAssign(t) ==
    /\ pc[t] = "se_assign"
    /\ IF loc[t].warn
       THEN /\ warnings' = [warnings EXCEPT !.enabled = @ + 1]
            /\ have_printed_enabled_warning' = TRUE
       ELSE UNCHANGED <<warnings, have_printed_enabled_warning>>
    /\ enabled' = loc[t].arg
    /\ loc' = [loc EXCEPT ![t] = NoLoc]
    /\ pc' = [pc EXCEPT ![t] = "run"]
    /\ UNCHANGED <<metrics, lock, have_printed_gpu_warning, max_depth, torch,
                   current_path, frames, snap, out, completed, dirty, everReset>>

\* str_metrics(): lines 161-164, the critical section.  `clean` records
\* that no record has touched the store since the last reset.
SmSnapshotAt(t, at) ==
    /\ pc[t] = at
    /\ CanAcquire
    /\ IF metrics = <<>>
       THEN /\ out' = [out EXCEPT ![t] = [NoOut EXCEPT !.text = NoMetrics]]
            /\ pc' = [pc EXCEPT ![t] = "sm_ret"]
            /\ UNCHANGED snap
       ELSE /\ snap' = [snap EXCEPT ![t] = metrics]
            /\ pc' = [pc EXCEPT ![t] = "sm_width"]
            /\ UNCHANGED out
    /\ loc' = [loc EXCEPT ![t] = [NoLoc EXCEPT !.clean = ~dirty]]
    /\ lock' = LockAfterWith(t, metrics = <<>>)
    /\ UNCHANGED <<metrics, enabled, have_printed_enabled_warning,
                   have_printed_gpu_warning, max_depth, torch, current_path,
                   frames, warnings, completed, dirty, everReset>>

SmSnapshot(t) == SmSnapshotAt(t, "run")

\* Lines 165-175.
SmWidth(t) ==
    /\ pc[t] = "sm_width"
    /\ max_depth' = IF max_depth = None THEN ComputeWidth(snap[t]) ELSE max_depth
    /\ pc' = [pc EXCEPT ![t] = "sm_format"]
    /\ UNCHANGED <<metrics, lock, enabled, have_printed_enabled_warning,
                   have_printed_gpu_warning, torch, current_path, frames, loc,
                   snap, out, warnings, completed, dirty, everReset>>

\* Lines 177-226: the header, the rows, and max_depth set back to None.  With
\* max_depth None the format specification of line 177 is invalid and the
\* call raises.
SmFormat(t) ==
    /\ pc[t] = "sm_format"
    /\ out' = [out EXCEPT ![t] =
                  IF max_depth = None THEN [NoOut EXCEPT !.text = "raise"]
                  ELSE [text |-> "table", width |-> max_depth,
                        rows |-> StrRows(snap[t], 0, <<>>, max_depth)]]
    /\ max_depth' = None
    /\ snap' = [snap EXCEPT ![t] = <<>>]
    /\ pc' = [pc EXCEPT ![t] = "sm_ret"]
    /\ UNCHANGED <<metrics, lock, enabled, have_printed_enabled_warning,
                   have_printed_gpu_warning, torch, current_path, frames, loc,
                   warnings, completed, dirty, everReset>>

\* The caller takes the returned text.
SmReturn(t) ==
    /\ pc[t] = "sm_ret"
    /\ out' = [out EXCEPT ![t] = NoOut]
    /\ loc' = [loc EXCEPT ![t] = NoLoc]
    /\ pc' = [pc EXCEPT ![t] = "run"]
    /\ UNCHANGED <<metrics, lock, enabled, have_printed_enabled_warning,
                   have_printed_gpu_warning, max_depth, torch, current_path,
                   frames, snap, warnings, completed, dirty, everReset>>

\* One whole scope occurrence at path p measuring d, on a thread that runs
\* alone: the store changes by the critical section of __update_metrics.
RecordAt(t, p, d) ==
    /\ pc[t] = "run"
    /\ TotalSamples(metrics) < RenderMaxSamples
    /\ metrics' = UpdateMetrics(metrics, p, d)
    /\ dirty' = TRUE
    /\ UNCHANGED <<lock, enabled, have_printed_enabled_warning,
                   have_printed_gpu_warning, max_depth, torch, current_path,
                   frames, pc, loc, snap, out, warnings, completed, everReset>>

\* Several threads: scopes that are enabled and complete normally, reset and
\* str_metrics, in every interleaving.
Next ==
    \E t \in Threads :
        \/ \E name \in Names : Enter(t, name, TRUE, FALSE)
        \/ \E d \in ConcDurations : ExitTimed(t, d)
        \/ UmTest(t)
        \/ UmBody(t)
        \/ UmExit(t)
        \/ Reset(t)
        \/ SmSnapshot(t)
        \/ SmWidth(t)
        \/ SmFormat(t)
        \/ SmReturn(t)

Spec == Init /\ [][Next]_vars

\* One thread: every way a scope can be entered and left, and the global
\* flag.
SeqNext ==
    \E t \in {1} :
        \/ \E name \in Names, enable \in BOOLEAN : Enter(t, name, enable, FALSE)
        \/ ExitSkipped(t)
        \/ \E d \in Durations : ExitTimed(t, d)
        \/ UmTest(t)
        \/ UmBody(t)
        \/ UmExit(t)
        \/ Raise(t)
        \/ Reset(t)
        \/ \E e \in BOOLEAN : SetEnabledTest(t, e)
        \/ SetEnabledAssign(t)

SeqSpec == Init /\ [][SeqNext]_vars

\* One thread: str_metrics applied to the stores that records can build.
RenderNext ==
    \E t \in {1} :
        \/ \E p \in AllPaths, d \in RenderDurations : RecordAt(t, p, d)
        \/ SmSnapshot(t)
        \/ SmWidth(t)
        \/ SmFormat(t)
        \/ SmReturn(t)

RenderSpec == Init /\ [][RenderNext]_vars

\* One thread: str_metrics applied to stores with names of several lengths
\* and nodes three levels deep.
LayoutNext ==
    \E t \in {1} :
        \/ \E p \in LayoutPaths, d \in Durations : RecordAt(t, p, d)
        \/ SmSnapshot(t)
        \/ SmWidth(t)
        \/ SmFormat(t)
        \/ SmReturn(t)

LayoutSpec == Init /\ [][LayoutNext]_vars

\* One thread: every operation of the public interface, in any order.
OpsNext ==
    \E t \in {1} :
        \/ \E name \in Names, enable \in BOOLEAN : Enter(t, name, enable, FALSE)
        \/ ExitSkipped(t)
        \/ \E d \in ConcDurations : ExitTimed(t, d)
        \/ UmTest(t)
        \/ UmBody(t)
        \/ UmExit(t)
        \/ Raise(t)
        \/ Reset(t)
        \/ \E e \in BOOLEAN : SetEnabledTest(t, e)
        \/ SetEnabledAssign(t)
        \/ SmSnapshot(t)
        \/ SmWidth(t)
        \/ SmFormat(t)
        \/ SmReturn(t)

OpsSpec == Init /\ [][OpsNext]_vars

\* One thread: enabled scopes that ask for device synchronisation or not,
\* torch not being imported; every scope completes normally.
GpuNext ==
    \E t \in {1} :
        \/ \E name \in Names, gpu \in BOOLEAN : Enter(t, name, TRUE, gpu)
        \/ \E d \in Durations : ExitTimed(t, d)
        \/ UmTest(t)
        \/ UmBody(t)
        \/ UmExit(t)
        \/ Reset(t)

GpuSpec == Init /\ [][GpuNext]_vars

\* One thread: enabled scopes whose wrapped work completes or raises.
RaiseNext ==
    \E t \in {1} :
        \/ \E name \in Names : Enter(t, name, TRUE, FALSE)
        \/ \E d \in Durations : ExitTimed(t, d)
        \/ UmTest(t)
        \/ UmBody(t)
        \/ UmExit(t)
        \/ Raise(t)
        \/ Reset(t)

RaiseSpec == Init /\ [][RaiseNext]_vars

\* Thread t reaches a `with self.lock` statement and waits for the lock: in
\* reset (line 68), in str_metrics (line 161) and, at the normal exit of a
\* timed scope, in __update_metrics (line 132).
BeginReset(t) ==
    /\ pc[t] = "run"
    /\ pc' = [pc EXCEPT ![t] = "rs_lock"]
    /\ UNCHANGED <<metrics, lock, enabled, have_printed_enabled_warning,
                   have_printed_gpu_warning, max_depth, torch, current_path,
                   frames, loc, snap, out, warnings, completed, dirty, everReset>>

BeginRender(t) ==
    /\ pc[t] = "run"
    /\ pc' = [pc EXCEPT ![t] = "sm_lock"]
    /\ UNCHANGED <<metrics, lock, enabled, have_printed_enabled_warning,
                   have_printed_gpu_warning, max_depth, torch, current_path,
                   frames, loc, snap, out, warnings, completed, dirty, everReset>>

BeginRecord(t) ==
    /\ pc[t] = "run"
    /\ frames[t] # <<>>
    /\ Last(frames[t]).timed
    /\ pc' = [pc EXCEPT ![t] = "um_lock"]
    /\ UNCHANGED <<metrics, lock, enabled, have_printed_enabled_warning,
                   have_printed_gpu_warning, max_depth, torch, current_path,
                   frames, loc, snap, out, warnings, completed, dirty, everReset>>

\* Several threads: record, reset and str_metrics with the wait for the lock
\* as a state of its own.
LockNext ==
    \E t \in Threads :
        \/ Enter(t, "A", TRUE, FALSE)
        \/ BeginRecord(t)
        \/ ExitTimedAt(t, 1, "um_lock")
        \/ UmTest(t)
        \/ UmBody(t)
        \/ UmExit(t)
        \/ BeginReset(t)
        \/ ResetAt(t, "rs_lock")
        \/ BeginRender(t)
        \/ SmSnapshotAt(t, "sm_lock")
        \/ SmWidth(t)
        \/ SmFormat(t)
        \/ SmReturn(t)

\* Fair scheduling: a thread inside a call takes its next step, and a thread
\* that waits for the lock gets it if the lock is free again and again.
\* Weak fairness of the steps of str_metrics after its critical section is
\* written with their enabling condition, pc[t] \in FormatPcs.
FormatPcs == {"sm_width", "sm_format", "sm_ret"}
Acquire(t) ==
    \/ ExitTimedAt(t, 1, "um_lock")
    \/ ResetAt(t, "rs_lock")
    \/ SmSnapshotAt(t, "sm_lock")
Walk(t) == UmTest(t) \/ UmBody(t) \/ UmExit(t)
Format(t) == SmWidth(t) \/ SmFormat(t) \/ SmReturn(t)
FormatFair(t) == []<>(pc[t] \notin FormatPcs) \/ []<><<Format(t)>>_vars
LockFair ==
    \A t \in Threads : WF_vars(Walk(t)) /\ SF_vars(Acquire(t)) /\ FormatFair(t)

LockSpec == Init /\ [][LockNext]_vars /\ LockFair

\* Several threads that call set_enabled and nothing else: the state after
\* construction, with NumCallers threads.
WarnInit ==
    /\ metrics = <<>>
    /\ lock = 0
    /\ enabled = TRUE
    /\ have_printed_enabled_warning = FALSE
    /\ have_printed_gpu_warning = FALSE
    /\ max_depth = None
    /\ torch = FALSE
    /\ current_path = [t \in Callers |-> <<>>]
    /\ frames = [t \in Callers |-> <<>>]
    /\ pc = [t \in Callers |-> "run"]
    /\ loc = [t \in Callers |-> NoLoc]
    /\ snap = [t \in Callers |-> <<>>]
    /\ out = [t \in Callers |-> NoOut]
    /\ warnings = [enabled |-> 0, gpu |-> 0]
    /\ completed = [t \in Callers |-> [p \in AllPaths |-> 0]]
    /\ dirty = FALSE
    /\ everReset = FALSE

WarnNext ==
    \E t \in Callers :
        \/ \E e \in BOOLEAN : SetEnabledTest(t, e)
        \/ SetEnabledAssign(t)

WarnSpec == WarnInit /\ [][WarnNext]_vars

\* ================================================================ claims
UmPcs == {"um_test", "um_body", "um_exit"}
Skipped(f) == ~f.enable \/ ~f.flag
OpenPath(f) == Append(f.base, f.name)
NodePaths(m) == {m[k].path : k \in 1..Len(m)}

\* C1: every scope exit, normal or abnormal, leaves the thread's scope stack
\* as it was immediately before the scope was entered.
C1_ExitRestoresStack ==
    [][\A t \in Threads :
          Len(frames'[t]) < Len(frames[t])
              => current_path'[t] = Last(frames[t]).base]_vars

\* C2: with no reset, and no thread inside __update_metrics, the node at each
\* path holds exactly as many samples as enabled scopes have completed
\* normally at that path, summed over the threads.
C2_CountExact ==
    (~everReset /\ \A t \in Threads : pc[t] \notin UmPcs)
        => \A p \in AllPaths :
              Len(Timings(metrics, p)) = SeqSum([t \in Threads |-> completed[t][p]])

C2_Witness ==
    /\ ~everReset
    /\ \A t \in Threads : pc[t] = "run" /\ frames[t] = <<>> /\ completed[t][<<"A">>] = 1
    /\ Len(Timings(metrics, <<"A">>)) = NumThreads

\* C3: when a record has walked its path p, every prefix of p is a node, the
\* elapsed value is appended to the timings of the node at p, and nothing
\* else differs from the store the record found: the old nodes keep their
\* order and timings, and the new nodes are prefixes of p.
C3_RecordLastOnly ==
    \A t \in Threads :
        pc[t] = "um_exit" =>
            LET p   == current_path[t]
                pre == loc[t].pre
            IN  /\ \A i \in 1..Len(p) : HasNode(metrics, Prefix(p, i))
                /\ Timings(metrics, p) = Append(Timings(pre, p), loc[t].elapsed)
                /\ \A q \in NodePaths(metrics) \ {p} : Timings(metrics, q) = Timings(pre, q)
                /\ Len(pre) <= Len(metrics)
                /\ \A k \in 1..Len(pre) : metrics[k].path = pre[k].path
                /\ \A k \in (Len(pre) + 1)..Len(metrics) : IsPrefix(metrics[k].path, p)

C3_Witness ==
    \E t \in Threads :
        /\ pc[t] = "um_exit"
        /\ loc[t].pre = <<>>
        /\ current_path[t] = <<"A", "B">>
        /\ metrics = << [path |-> <<"A">>, timings |-> <<>>],
                        [path |-> <<"A", "B">>, timings |-> <<loc[t].elapsed>>] >>

\* C4: a sample is filed at the path made of the names of the scopes open on
\* the recording thread, outermost first.
C4_ShapeFidelity ==
    \A t \in Threads :
        pc[t] \in UmPcs => current_path[t] = FrameNames(frames[t])

\* The parts of C5 that hold of every state, and of every step.
C5_NoRecordWhenDisabled ==
    \A t \in Threads :
        /\ (frames[t] # <<>> /\ ~Last(frames[t]).flag) => pc[t] \notin UmPcs
        /\ pc[t] = "um_exit" =>
              /\ Last(frames[t]).enable /\ Last(frames[t]).flag
              /\ TotalSamples(metrics) = TotalSamples(loc[t].pre) + 1

C5_Steps ==
    \A t \in Threads :
        /\ (/\ frames[t] # <<>>
            /\ ~Last(frames[t]).flag
            /\ Len(frames'[t]) < Len(frames[t])) => metrics' = metrics
        /\ enabled' # enabled => metrics' = metrics
        /\ (/\ frames[t] # <<>>
            /\ Last(frames[t]).enable /\ Last(frames[t]).flag
            /\ Len(frames'[t]) < Len(frames[t])
            /\ current_path'[t] # current_path[t]) => pc[t] = "um_exit"

\* C5: a scope entered while the global flag is false never records, whatever
\* the flag is later, and leaves the store alone when it exits; a change of
\* the flag leaves the store alone; a scope entered enabled with the flag
\* true adds exactly one sample when it exits normally.
C5_DisableCorrect == []C5_NoRecordWhenDisabled /\ [][C5_Steps]_vars

C5_Witness ==
    \E t \in Threads :
        /\ pc[t] = "um_exit"
        /\ have_printed_enabled_warning
        /\ Len(frames[t]) = 2
        /\ ~frames[t][1].flag
        /\ TotalSamples(loc[t].pre) >= 1

\* The parts of C6 that hold of every state, and of every step.
C6_SkippedOpen ==
    \A t \in Threads :
        \A k \in 1..Len(frames[t]) :
            LET g == frames[t][k]
            IN  Skipped(g) =>
                  /\ k = Len(frames[t]) => pc[t] \notin UmPcs
                  /\ Len(current_path[t]) > Len(g.base)
                  /\ Prefix(current_path[t], Len(g.base) + 1) = OpenPath(g)
                  /\ pc[t] = "um_exit" =>
                        /\ HasNode(metrics, OpenPath(g))
                        /\ Timings(metrics, OpenPath(g)) = Timings(loc[t].pre, OpenPath(g))

C6_Steps ==
    \A t \in Threads :
        /\ Len(frames'[t]) > Len(frames[t]) =>
              /\ current_path'[t] = Append(current_path[t], Last(frames'[t]).name)
              /\ metrics' = metrics
        /\ ExitSkipped(t) =>
              /\ Skipped(Last(frames[t]))
              /\ current_path'[t] = Front(current_path[t])
              /\ metrics' = metrics
        /\ (/\ frames[t] # <<>>
            /\ Skipped(Last(frames[t]))
            /\ Len(frames'[t]) < Len(frames[t])
            /\ current_path'[t] # current_path[t]) =>
              /\ current_path'[t] = Front(current_path[t])
              /\ metrics' = metrics

C7_ResetThenRender ==
    \A t \in Threads :
        (pc[t] = "sm_ret" /\ loc[t].clean) => out[t].text = NoMetrics

C7_Witness ==
    \E t, u \in Threads :
        /\ everReset
        /\ pc[t] = "sm_ret"
        /\ loc[t].clean
        /\ out[t].text = NoMetrics
        /\ snap[u] # <<>>

\* Every node of m has a sample at itself or below itself.
Complete(m) ==
    \A k \in 1..Len(m) :
        \E j \in 1..Len(m) : IsPrefix(m[k].path, m[j].path) /\ m[j].timings # <<>>

\* C8: the store, whenever the lock is free, and every snapshot hold only
\* whole records: each node has a sample at itself or below itself.
C8_RecordAtomic ==
    /\ lock = 0 => Complete(metrics)
    /\ \A t \in Threads : Complete(snap[t])

C8_Witness ==
    \E t, u \in Threads :
        /\ pc[t] = "um_test"
        /\ loc[t].i = 2
        /\ ~Complete(metrics)
        /\ pc[u] = "sm_format"
        /\ snap[u] # <<>>

\* The statistics of a list of timings, stated without sorting it.
TenthsPerTick == (10 * MsPerSecond) \div TicksPerSecond
Abs(x) == IF x >= 0 THEN x ELSE -x
Values(ts) == {ts[k] : k \in 1..Len(ts)}
\* The k-th smallest of ts.
OrderStat(ts, k) ==
    CHOOSE v \in Values(ts) :
        /\ Cardinality({i \in 1..Len(ts) : ts[i] < v}) < k
        /\ Cardinality({i \in 1..Len(ts) : ts[i] <= v}) >= k
TwiceMedian(ts) ==
    IF Len(ts) % 2 = 1 THEN 2 * OrderStat(ts, (Len(ts) + 1) \div 2)
    ELSE OrderStat(ts, Len(ts) \div 2) + OrderStat(ts, Len(ts) \div 2 + 1)

RowStatsRight(r, ts) ==
    /\ ts # <<>>
    /\ r.stats.count = Len(ts)
    /\ r.stats.total = TenthsPerTick * SeqSum(ts)
    /\ 2 * Abs(r.stats.average * Len(ts) - r.stats.total) <= Len(ts)
    /\ 2 * r.stats.median = TenthsPerTick * TwiceMedian(ts)
    /\ \E v \in Values(ts) :
          /\ r.stats.min = TenthsPerTick * v
          /\ \A w \in Values(ts) : v <= w
    /\ \E v \in Values(ts) :
          /\ r.stats.max = TenthsPerTick * v
          /\ \A w \in Values(ts) : v >= w

\* C9: every node with a sample has a row, and each rendered row reports,
\* for the timings of its node, Runs = their number, Total = their sum,
\* Average = Total / Runs to the nearest tenth, Median = the middle value
\* (the mean of the two middle values of an even count), Min and Max = the
\* extremes, in milliseconds.
C9_Statistics ==
    \A t \in Threads :
        (pc[t] = "sm_ret" /\ out[t].text = "table") =>
            /\ \A p \in NodePaths(metrics) :
                  Timings(metrics, p) # <<>> =>
                      \E k \in 1..Len(out[t].rows) : out[t].rows[k].path = p
            /\ \A k \in 1..Len(out[t].rows) :
                  RowStatsRight(out[t].rows[k], Timings(metrics, out[t].rows[k].path))

\* 10, 20 and 30 ms at path [A]: Runs=3, Total=60.0, Median=20.0,
\* Average=20.0, Min=10.0, Max=30.0.
C9_Witness ==
    \E t \in Threads :
        /\ pc[t] = "sm_ret"
        /\ metrics = << [path |-> <<"A">>, timings |-> <<2, 4, 6>>] >>
        /\ Len(out[t].rows) = 1
        /\ out[t].rows[1].stats = [count |-> 3, total |-> 600, median |-> 200,
                                   average |-> 200, min |-> 100, max |-> 300]

\* The order in which render is to visit two siblings a and b.
MedianOrZero2(m, p) == IF Timings(m, p) = <<>> THEN 0 ELSE TwiceMedian(Timings(m, p))
VisitedBefore(m, a, b) ==
    \/ MedianOrZero2(m, a) > MedianOrZero2(m, b)
    \/ MedianOrZero2(m, a) = MedianOrZero2(m, b) /\ IndexOf(m, a) < IndexOf(m, b)
Fork(p, q) == CHOOSE d \in 1..Min(Len(p), Len(q)) :
                  Prefix(p, d) # Prefix(q, d) /\ Prefix(p, d - 1) = Prefix(q, d - 1)

\* C10: of two rows that lie in the subtrees of two different sibling nodes,
\* the one printed first belongs to the sibling with the larger median of its
\* own timings (0 without timings) or, the medians being equal, to the
\* sibling inserted first.
C10_SiblingOrder ==
    \A t \in Threads :
        (pc[t] = "sm_ret" /\ out[t].text = "table") =>
            \A i, j \in 1..Len(out[t].rows) :
                LET p == out[t].rows[i].path
                    q == out[t].rows[j].path
                IN  (i < j /\ ~IsPrefix(p, q) /\ ~IsPrefix(q, p)) =>
                        VisitedBefore(metrics, Prefix(p, Fork(p, q)), Prefix(q, Fork(p, q)))

\* Medians 5 ms and 50 ms, the 5 ms sibling inserted first: the 50 ms one is
\* rendered first.
C10_Witness ==
    \E t \in Threads :
        /\ pc[t] = "sm_ret"
        /\ metrics = << [path |-> <<"A">>, timings |-> <<1>>],
                        [path |-> <<"B">>, timings |-> <<10>>] >>
        /\ Len(out[t].rows) = 2
        /\ out[t].rows[1].path = <<"B">> /\ out[t].rows[1].stats.median = 500
        /\ out[t].rows[2].path = <<"A">> /\ out[t].rows[2].stats.median = 50

\* A finished render that returned a table.
Rendered(t) == pc[t] = "sm_ret" /\ out[t].text = "table"
\* The connector and its fillers take two characters for every level.
PrefixLen(depth) == 2 * depth

\* C11: in every rendered row the name field, connector prefix plus scope
\* name, is exactly as wide as the column width; a prefix plus name longer
\* than the width is cut and ends with "...", the field still as wide as
\* the column, and a shorter one is shown whole.
C11_Truncation ==
    \A t \in Threads :
        Rendered(t) =>
            \A k \in 1..Len(out[t].rows) :
                LET r    == out[t].rows[k]
                    full == PrefixLen(r.depth) + Len(r.name)
                IN  /\ r.field = out[t].width
                    /\ full > out[t].width => r.cut /\ r.shown = out[t].width
                    /\ full <= out[t].width => ~r.cut /\ r.shown = full
\* A render that cut a name nested under another scope at the widest column.
C11_Witness ==
    \E t \in Threads :
        /\ Rendered(t)
        /\ out[t].width = max_width_func
        /\ \E k \in 1..Len(out[t].rows) :
               out[t].rows[k].cut /\ out[t].rows[k].depth = 1

\* The largest len(name) + 2 * depth over the nodes of m that satisfy Use,
\* clamped as lines 173-175 clamp it.
SetMax(S) == CHOOSE x \in S : \A y \in S : y <= x
Clamp(v) == Min(max_width_func, Max(min_width_func, v))
NameWidth(node) == Len(Last(node.path)) + PrefixLen(Len(node.path) - 1)
Sampled(node) == Len(node.timings) > 0
WidthOver(m, Use(_)) ==
    Clamp(SetMax({0} \cup {NameWidth(m[k]) : k \in {j \in 1..Len(m) : Use(m[j])}}))
AnyNode(node) == TRUE
NoSeparator(m) == \A k \in 1..Len(m) : \A j \in 1..Len(m[k].path) : m[k].path[j] # SepName

LastSibling(m, r) == Last(SortedItems(Children(m, Front(r.path)))).path = r.path

\* C13 as stated: a row at depth 0 has no prefix; a row at any depth of 1 or
\* more starts with the last-sibling marker exactly when its node is the
\* last of its siblings in the sorted order, with the middle-sibling marker
\* otherwise.
C13_LastMarkerAtEveryDepth ==
    \A t \in Threads :
        Rendered(t) =>
            \A k \in 1..Len(out[t].rows) :
                LET r == out[t].rows[k]
                IN  /\ r.depth = 0 => r.marker = "none"
                    /\ r.depth >= 1 =>
                           r.marker = IF LastSibling(metrics, r) THEN "last" ELSE "middle"
\* C13: a row at depth 0 has no prefix; a row at depth 1 starts with the
\* last-sibling marker exactly when its node is the last of its siblings in
\* the sorted order and with the middle-sibling marker otherwise; a row at
\* depth 2 or more always starts with the middle-sibling marker; depth - 1
\* fillers follow the marker.
C13_ConnectorPrefix ==
    \A t \in Threads :
        Rendered(t) =>
            \A k \in 1..Len(out[t].rows) :
                LET r == out[t].rows[k]
                IN  /\ r.depth = 0 => r.marker = "none" /\ r.fillers = 0
                    /\ r.depth = 1 =>
                           r.marker = IF LastSibling(metrics, r) THEN "last" ELSE "middle"
                    /\ r.depth >= 2 => r.marker = "middle"
                    /\ r.depth >= 1 => r.fillers = r.depth - 1
\* A table with a last sibling at depth 1, and at depth 2 a last sibling
\* behind another row of the same parent.
C13_Witness ==
    \E t \in Threads :
        /\ Rendered(t)
        /\ \E k \in 1..Len(out[t].rows) :
               out[t].rows[k].depth = 1 /\ out[t].rows[k].marker = "last"
        /\ \E k \in 2..Len(out[t].rows) :
               /\ out[t].rows[k].depth = 2
               /\ out[t].rows[k - 1].depth = 2
               /\ LastSibling(metrics, out[t].rows[k])

RowPaths(rows) == {rows[k].path : k \in 1..Len(rows)}
SampledPaths(m) == {m[k].path : k \in {j \in 1..Len(m) : Sampled(m[j])}}

\* C14: a render emits exactly one row for every node of the snapshot that
\* has at least one sample and none for a node without samples; a row at
\* path p has depth Len(p) - 1, the row of a node comes before the rows of
\* its descendants and the rows below one node are adjacent (depth first),
\* whether or not that node has a row itself.
C14_OneRowPerTimedNode ==
    \A t \in Threads :
        Rendered(t) =>
            LET rows == out[t].rows
            IN  /\ RowPaths(rows) = SampledPaths(metrics)
                /\ Len(rows) = Cardinality(SampledPaths(metrics))
                /\ \A k \in 1..Len(rows) : rows[k].depth = Len(rows[k].path) - 1
                /\ \A i, j \in 1..Len(rows) :
                       IsStrictPrefix(rows[i].path, rows[j].path) => i < j
                /\ \A p \in NodePaths(metrics) : \A i, j, k \in 1..Len(rows) :
                       i < j /\ j < k /\ IsPrefix(p, rows[i].path) /\ IsPrefix(p, rows[k].path)
                           => IsPrefix(p, rows[j].path)
\* A table with the rows of two timed nodes below a node that has no
\* samples and no row.
C14_Witness ==
    \E t \in Threads :
        /\ Rendered(t)
        /\ \E p \in NodePaths(metrics) :
               /\ Timings(metrics, p) = <<>>
               /\ Cardinality({q \in RowPaths(out[t].rows) : IsStrictPrefix(p, q)}) >= 2

\* Every node of m is at its place in m2 with the samples of m first.
Grows(m, m2) ==
    /\ Len(m) <= Len(m2)
    /\ \A k \in 1..Len(m) :
           /\ m2[k].path = m[k].path
           /\ Len(m[k].timings) <= Len(m2[k].timings)
           /\ SubSeq(m2[k].timings, 1, Len(m[k].timings)) = m[k].timings

\* C15: between two resets the store only grows: every step of scope entry
\* or exit, record, render and set_enabled keeps every node and every
\* recorded sample, samples being appended only; the one step that removes
\* anything is a reset, and it leaves the store empty.
C15_StoreOnlyGrows ==
    [][\/ Grows(metrics, metrics')
       \/ /\ metrics' = <<>>
          /\ \E t \in Threads : pc[t] = "run" /\ pc'[t] = "run"
          /\ everReset' /\ ~dirty']_vars
\* After a reset, a store of several nodes one of which has been appended to.
C15_Witness ==
    /\ everReset
    /\ Len(metrics) >= 2
    /\ \E k \in 1..Len(metrics) : Len(metrics[k].timings) >= 2

\* C16: render shares no mutable state with other contexts besides the
\* store, so with several contexts rendering at once every render formats
\* its rows with the width computed from its own snapshot and completes
\* without an error, as a render running alone would.
C16_RenderSharesNothing ==
    \A t \in Threads :
        /\ pc[t] = "sm_format" => max_depth = ComputeWidth(snap[t])
        /\ pc[t] = "sm_ret" => out[t].text # "raise"

\* The calls of set_enabled that have passed the test of lines 261-263 and
\* have their warning still to emit.
PendingWarnings == Cardinality({t \in Callers : pc[t] = "se_assign" /\ loc[t].warn})

\* C17 as stated: however many contexts race on the first
\* set_enabled(false), at most one duplicate of the warning is emitted, two
\* warnings in total.
C17_AtMostOneDuplicate == warnings.enabled <= 2
\* C17: the warning is emitted by the first call that assigns false; once
\* it has been emitted, the only further warnings are those of calls that
\* had passed the test before, so that a sequence of calls that do not
\* overlap emits it exactly once, and n racing contexts emit at most n.
C17_OneTimeWarning ==
    /\ [](/\ warnings.enabled + PendingWarnings <= NumCallers
          /\ have_printed_enabled_warning <=> warnings.enabled >= 1
          /\ ~enabled => warnings.enabled >= 1)
    /\ [][/\ warnings'.enabled \in {warnings.enabled, warnings.enabled + 1}
          /\ have_printed_enabled_warning /\ PendingWarnings = 0
                 => warnings'.enabled = warnings.enabled
          /\ \A t \in Callers :
                 pc[t] = "se_assign" /\ pc'[t] = "run" /\ loc[t].arg = FALSE
                     => warnings'.enabled >= 1]_vars
\* Every context has emitted the warning, and the flag is on again.
C17_Witness == warnings.enabled = NumCallers /\ enabled

\* C18: with torch not imported, a scope opened with gpu=True is entered
\* and its wrapped work runs; on normal exit exactly one sample, the
\* elapsed host time, is recorded at the scope's path and the stack entry is
\* popped; the warning about the missing capability is emitted at most once
\* over all such scopes of the thread.
C18_MissingGpuNotFatal ==
    /\ [](/\ ~torch
          /\ warnings.gpu <= 1
          /\ have_printed_gpu_warning <=> warnings.gpu = 1
          /\ \A t \in Threads :
                 pc[t] = "um_exit" /\ Last(frames[t]).gpu =>
                     LET p == OpenPath(Last(frames[t]))
                     IN  /\ Timings(metrics, p) =
                                Append(Timings(loc[t].pre, p), loc[t].elapsed)
                         /\ TotalSamples(metrics) = TotalSamples(loc[t].pre) + 1)
    /\ [][\A t \in Threads :
              /\ Len(frames'[t]) > Len(frames[t]) /\ Last(frames'[t]).gpu
                     => Last(frames'[t]).timed /\ pc'[t] = "run"
              /\ pc[t] = "um_exit" /\ pc'[t] = "run" /\ Last(frames[t]).gpu
                     => /\ current_path'[t] = Last(frames[t]).base
                        /\ frames'[t] = Front(frames[t])]_vars
\* The inner of two nested gpu scopes has recorded its sample after an
\* earlier gpu scope, one warning having been emitted.
C18_Witness ==
    \E t \in Threads :
        /\ pc[t] = "um_exit"
        /\ Len(frames[t]) = 2
        /\ frames[t][1].gpu /\ frames[t][2].gpu
        /\ TotalSamples(metrics) >= 2
        /\ warnings.gpu = 1

\* C19: when the wrapped work of an enabled scope raises, the scope ends
\* without a measurement: the step leaves the store as it is, the scope has
\* added no sample of its own, and no walk of the store is started.
C19_NoRecordOnRaise ==
    [][\A t \in Threads :
          /\ pc[t] = "run" /\ pc'[t] = "run"
          /\ Len(frames'[t]) < Len(frames[t])
          /\ Last(frames[t]).timed
          => /\ metrics' = metrics
             /\ Last(frames[t]).added = 0
             /\ lock' = lock /\ dirty' = dirty]_vars
\* The work of a scope has raised while the store holds samples: the stack
\* keeps a name that no open scope has, and no node is at the stack's path.
C19_Witness ==
    \E t \in Threads :
        /\ pc[t] = "run"
        /\ Len(frames[t]) = 1
        /\ Len(current_path[t]) = 2
        /\ metrics # <<>>
        /\ ~HasNode(metrics, current_path[t])

LockPcs == {"um_lock", "rs_lock", "sm_lock"}

====
